---- MODULE Spec2Model ----
(***************************************************************************)
(* Product Hunt scraper: the storage managers (src/src/database.py), the   *)
(* page loops (src/src/scraper.py) and the crawler (src/main.py).          *)
(*                                                                         *)
(* The specifications share the variables:                                 *)
(*   Spec        one manager, created by DatabaseFactory for db_type, and  *)
(*               any sequence of calls of its public methods;              *)
(*   SpecEquiv   a PostgreSQLManager and a MongoDBManager receiving the    *)
(*               same calls in lockstep, with no injected fault;           *)
(*   SpecCrawl   ProductHuntCrawler with a supported db_type: initialize,  *)
(*               scrape_urls, save_results;                                *)
(*   SpecRun     ProductHuntCrawler.run for any db_type, with dropped      *)
(*               connections, export failures and stop signals;            *)
(*   SpecConc    two save_products calls interleaved on one target;        *)
(*   SpecExtract _parse_products on the containers of one page.            *)
(***************************************************************************)
EXTENDS Integers, Sequences, FiniteSets, TLC

\* ------------------------------------------------------------------ bounds
MaxBatch == 2
MaxLimit == 2
MaxUrls == 3
MaxRunUrls == 2
MaxElems == 2

\* ------------------------------------------------------------ value domains
Backends == {"postgresql", "mongodb"}

None == "None"

Names == {"a", "b"}

\* URLs pydantic's HttpUrl accepts, and one it rejects.
ValidUrls == {"https://x.test/1", "https://x.test/2"}
MalformedUrl == "not-a-url"
UrlPool == ValidUrls \cup {MalformedUrl}

\* The mutable group (tagline, description, votes, comments) is drawn by one
\* index, the other columns (url, maker, category, launch_date, image_url,
\* scraped_at) by a second one.  Variants: a first extraction, one with other
\* mutable values, one with other values in the remaining columns.
Variants == { <<1, 1>>, <<2, 1>>, <<1, 2>> }
VoteVals == <<10, 25>>

ProductData(name, source_url, mut, imm) ==
    [ name        |-> name,
      tagline     |-> <<"tagline", mut>>,
      description |-> <<"description", mut>>,
      url         |-> <<"url", imm>>,
      votes       |-> VoteVals[mut],
      comments    |-> mut,
      maker       |-> <<"maker", imm>>,
      category    |-> <<"category", imm>>,
      launch_date |-> imm,
      image_url   |-> <<"image_url", imm>>,
      scraped_at  |-> imm,
      source_url  |-> source_url ]

\* The records given to save_products: three keys, the first key in every
\* variant, the second with two values of the remaining columns, the third
\* in one variant.
Products ==
    { ProductData("a", "https://x.test/1", v[1], v[2]) : v \in Variants } \cup
    { ProductData("b", "https://x.test/1", 1, i) : i \in 1..2 } \cup
    { ProductData("a", "https://x.test/2", 1, 1) }

Batches == UNION { [1..n -> Products] : n \in 0..MaxBatch }

\* Optional[int]: {} is None, {n} is the integer n.
Limits == {{}} \cup { {n} : n \in 0..MaxLimit }

KeyOf(r) == <<r.name, r.source_url>>

\* ------------------------------------------------------- helper operators
Max(S) == CHOOSE x \in S : \A y \in S : y <= x

RECURSIVE SumVotes(_)
SumVotes(rows) ==
    IF rows = {} THEN 0
    ELSE LET r == CHOOSE x \in rows : TRUE IN r.votes + SumVotes(rows \ {r})

EmptyMap == [k \in {} |-> 0]

NoProducts == [valid |-> FALSE, limit |-> {}, rows |-> <<>>]

\* ------------------------------------------------------------- PostgreSQL
\* The unique constraints / unique indexes that _create_tables gives the table
\* products: the primary key on id and nothing else (the three CREATE INDEX
\* statements are not UNIQUE).
PgUniqueIndexes == { {"id"} }

\* The conflict target of the INSERT in save_products.
OnConflictTarget == {"name", "source_url"}

\* INSERT ... ON CONFLICT (name, source_url) DO UPDATE: PostgreSQL rejects the
\* statement ("no unique or exclusion constraint matching the ON CONFLICT
\* specification") unless a unique index covers exactly the conflict target.
PgStatementAccepted == OnConflictTarget \in PgUniqueIndexes

\* The row written by DO UPDATE SET tagline, description, votes, comments
\* = EXCLUDED.*: the other columns of the existing row stay.
PgConflictUpdate(old, new) ==
    [old EXCEPT !.tagline = new.tagline, !.description = new.description,
                !.votes = new.votes, !.comments = new.comments]

\* The unique indexes _create_indexes asks for: the default one on _id and
\* create_index([("name", 1), ("source_url", 1)], unique=True).
MongoUniqueIndexes == {{"_id"}, {"name", "source_url"}}

UniqueIndexesOf(b) == IF b = "postgresql" THEN PgUniqueIndexes ELSE MongoUniqueIndexes

\* One cursor.execute(insert_sql, product_dict) inside the open transaction.
PgExecute(rows, p) ==
    IF ~PgStatementAccepted THEN [ok |-> FALSE, rows |-> rows]
    ELSE IF \E r \in rows : KeyOf(r) = KeyOf(p)
         THEN LET old == CHOOSE r \in rows : KeyOf(r) = KeyOf(p)
              IN [ok |-> TRUE, rows |-> (rows \ {old}) \cup {PgConflictUpdate(old, p)}]
         ELSE [ok |-> TRUE, rows |-> rows \cup {p}]

\* The for loop of PostgreSQLManager.save_products from the i-th product on;
\* fault = k makes the k-th execute raise (0: the environment fails nothing).
RECURSIVE PgLoop(_, _, _, _)
PgLoop(rows, batch, i, fault) ==
    IF i > Len(batch) THEN [ok |-> TRUE, rows |-> rows]
    ELSE IF i = fault THEN [ok |-> FALSE, rows |-> rows]
    ELSE LET e == PgExecute(rows, batch[i])
         IN IF e.ok THEN PgLoop(e.rows, batch, i + 1, fault) ELSE e

\* PostgreSQLManager.save_products: commit after the loop, rollback on any
\* exception.  With connection None the except clause itself raises
\* (None.rollback()), and so it does on a connection the server has dropped
\* (rollback() on a closed connection raises InterfaceError).
PgSaveProducts(conn, rows, batch, fault) ==
    IF batch = <<>> THEN [ret |-> "True", rows |-> rows]
    ELSE IF conn # "open" THEN [ret |-> "raised", rows |-> rows]
    ELSE LET l == PgLoop(rows, batch, 1, fault)
         IN IF l.ok THEN [ret |-> "True", rows |-> l.rows]
                    ELSE [ret |-> "False", rows |-> rows]

\* ---------------------------------------------------------------- MongoDB
\* update_one({name, source_url}, {"$set": doc}, upsert=True): doc holds every
\* field of the product, so a matching document gets all of them.
MongoUpdateOne(rows, doc) ==
    IF \E r \in rows : KeyOf(r) = KeyOf(doc)
    THEN LET old == CHOOSE r \in rows : KeyOf(r) = KeyOf(doc)
         IN (rows \ {old}) \cup {doc}
    ELSE rows \cup {doc}

\* The upsert loop of MongoDBManager.save_products: every update_one is
\* applied at once; the k-th one raising leaves the earlier ones in place.
RECURSIVE MongoLoop(_, _, _, _)
MongoLoop(rows, docs, i, fault) ==
    IF i > Len(docs) THEN [ok |-> TRUE, rows |-> rows]
    ELSE IF i = fault THEN [ok |-> FALSE, rows |-> rows]
    ELSE MongoLoop(MongoUpdateOne(rows, docs[i]), docs, i + 1, fault)

\* MongoDBManager.save_products.  With collection None the AttributeError is
\* caught and False returned, and so is the error of a server out of reach.
MongoSaveProducts(conn, rows, batch, fault) ==
    IF batch = <<>> THEN [ret |-> "True", rows |-> rows]
    ELSE IF conn # "open" THEN [ret |-> "False", rows |-> rows]
    ELSE LET l == MongoLoop(rows, batch, 1, fault)
         IN [ret |-> IF l.ok THEN "True" ELSE "False", rows |-> l.rows]

\* save_products on an open connection when a KeyboardInterrupt or a task
\* cancellation is delivered during the k-th write, the earlier ones being
\* done.  Neither is an Exception, so no except clause runs.
\* PostgreSQL: the writes belong to a transaction that was not committed and
\* is discarded with the connection.  MongoDB: every update_one made before
\* the signal stays.
PgSaveInterrupted(rows, batch, k) == rows

MongoSaveInterrupted(rows, batch, k) == MongoLoop(rows, batch, 1, k).rows

SaveInterruptedOf(b, rows, batch, k) ==
    IF b = "postgresql" THEN PgSaveInterrupted(rows, batch, k)
                        ELSE MongoSaveInterrupted(rows, batch, k)

SaveProductsOf(b, conn, rows, batch, fault) ==
    IF b = "postgresql" THEN PgSaveProducts(conn, rows, batch, fault)
                        ELSE MongoSaveProducts(conn, rows, batch, fault)

\* History: the records of batch handed to a write the environment did not
\* fail (all of them when fault = 0, those before the fault otherwise), the
\* later record of a key replacing the earlier one.
RECURSIVE Requested(_, _, _, _)
Requested(prev, batch, i, fault) ==
    IF i > Len(batch) \/ i = fault THEN prev
    ELSE LET k == KeyOf(batch[i])
         IN Requested([x \in DOMAIN prev \cup {k} |-> IF x = k THEN batch[i] ELSE prev[x]],
                      batch, i + 1, fault)

\* ----------------------------------------------------------------- queries
\* Python truthiness of `if limit:` : None and 0 are both false.
Truthy(limit) == limit # {} /\ limit # {0}

\* The orders ORDER BY scraped_at DESC / sort("scraped_at", -1) may return:
\* every enumeration of rows with scraped_at non-increasing (ties in any order).
SortedOrders(rows) ==
    { s \in [1..Cardinality(rows) -> rows] :
        /\ \A i, j \in DOMAIN s : i # j => s[i] # s[j]
        /\ \A i, j \in DOMAIN s : i < j => s[i].scraped_at >= s[j].scraped_at }

Take(s, n) == SubSeq(s, 1, IF n < Len(s) THEN n ELSE Len(s))

\* get_products of either manager on the rows in order ord: LIMIT n /
\* cursor.limit(n) is applied only when `if limit:` passes.  With no
\* connection the AttributeError is caught and [] returned.
GetProductsOf(conn, ord, limit) ==
    IF conn # "open" THEN <<>>
    ELSE IF Truthy(limit) THEN Take(ord, CHOOSE n \in limit : TRUE)
    ELSE ord

StatsRow(rows) ==
    [ total_products |-> Cardinality(rows),
      unique_sources |-> Cardinality({ r.source_url : r \in rows }),
      last_scraped   |-> IF rows = {} THEN {} ELSE { Max({ r.scraped_at : r \in rows }) },
      avg_votes      |-> IF rows = {} THEN {}
                         ELSE { [sum |-> SumVotes(rows), count |-> Cardinality(rows)] } ]

\* PostgreSQLManager.get_stats: an aggregate SELECT without GROUP BY always
\* yields one row (COUNT 0, MAX and AVG NULL on an empty table).
PgGetStats(conn, rows) ==
    IF conn # "open" THEN [keys |-> {}, row |-> StatsRow({})]
    ELSE [keys |-> {"total_products", "unique_sources", "last_scraped", "avg_votes"},
          row |-> StatsRow(rows)]

\* MongoDBManager.get_stats: $group over an empty collection yields no
\* document, and `result[0] if result else {}` then returns the empty map.
MongoGetStats(conn, rows) ==
    IF conn # "open" \/ rows = {} THEN [keys |-> {}, row |-> StatsRow({})]
    ELSE [keys |-> {"total_products", "unique_sources", "avg_votes", "last_scraped"},
          row |-> StatsRow(rows)]

GetStatsOf(b, conn, rows) ==
    IF b = "postgresql" THEN PgGetStats(conn, rows) ELSE MongoGetStats(conn, rows)

\* ------------------------------------------------------------ page loops
\* What the fetch collaborator and the parser give for one page: the fetch
\* raising, or the names of the products extracted, in page order.
PageItems == { <<>>, <<"a">>, <<"a", "b">>, <<"b", "a">> }
FetchErrorText == "fetch failed"
PageOutcomes == { [ok |-> FALSE, items |-> <<>>] } \cup
                { [ok |-> TRUE, items |-> it] : it \in PageItems }

UrlSeqs == UNION { [1..n -> UrlPool] : n \in 0..MaxUrls }

\* The absolute urls found in or built from the attributes of a page.
LinkedUrls == {"https://p.test/w", "https://x.test/w", "https://p.test/i.png"}

\* pydantic's validation of an HttpUrl field.
HttpUrlValid(u) == u \in ValidUrls \cup LinkedUrls

\* ScrapingResult(success=..., products=..., total_count=len(products),
\* page_url=url, error_message=...): the constructor raises ValidationError
\* when page_url is no HttpUrl.
ScrapingResult(success, products, url, error_message) ==
    [ raised |-> ~HttpUrlValid(url),
      value  |-> [ success |-> success, products |-> products,
                   total_count |-> Len(products), page_url |-> url,
                   error_message |-> error_message ] ]

\* The products _parse_products / _parse_products_simple build for a page.
Extracted(items, url) == [i \in DOMAIN items |-> ProductData(items[i], url, 1, 1)]

\* scrape_page of either scraper: the try body returns a success result; any
\* exception in it (the fetch, or the constructor) goes to the handler, which
\* returns a failure result built with the same url.
ScrapePage(url, page) ==
    LET body == ScrapingResult(TRUE, Extracted(page.items, url), url, {})
    IN IF page.ok /\ ~body.raised THEN body
       ELSE ScrapingResult(FALSE, <<>>, url, {FetchErrorText})

\* Loop body of ProductHuntScraper.scrape_multiple_pages: an exception of
\* scrape_page is caught and a failure result built, again with the same url.
PlaywrightLoopBody(url, page) ==
    LET r == ScrapePage(url, page)
    IN IF ~r.raised THEN r
       ELSE ScrapingResult(FALSE, <<>>, url, {"ValidationError"})

\* Loop body of the Requests branch of ProductHuntCrawler.scrape_urls: no
\* handler around scraper.scrape_page(url).
RequestsLoopBody(url, page) == ScrapePage(url, page)

\* The sleeps of self.delay between the end of the work on a page and the next
\* iteration.  scrape_multiple_pages sleeps after results.append(result),
\* whatever the result.
PlaywrightWaits(url, page) == 1

\* RequestsScraper.scrape_page sleeps inside the try body, after the parse:
\* an exception of session.get / raise_for_status skips it, and the loop of
\* scrape_urls has no sleep of its own.
RequestsWaits(url, page) == IF page.ok /\ HttpUrlValid(url) THEN 1 ELSE 0

\* The tags given to ProductHuntCrawler(db_type=...).
TypeTags == Backends \cup {"PostgreSQL", "sqlite"}

\* str.lower() on the tags.
Lower(t) == IF t = "PostgreSQL" THEN "postgresql" ELSE t

\* DatabaseFactory.create_manager: the manager for db_type.lower(), {} standing
\* for the ValueError raised on any other tag.
CreateManager(t) == IF Lower(t) \in Backends THEN {Lower(t)} ELSE {}

\* The loop of save_results: all_products.extend(result.products) for every
\* result with success, in order.
RECURSIVE AllProductsLoop(_, _, _)
AllProductsLoop(results, i, all_products) ==
    IF i > Len(results) THEN all_products
    ELSE AllProductsLoop(results, i + 1,
            IF results[i].success THEN all_products \o results[i].products
                                  ELSE all_products)

\* all_products = result.products + all_products in place of extend.
RECURSIVE AllProductsPrepending(_)
AllProductsPrepending(results) ==
    IF results = <<>> THEN <<>>
    ELSE (IF results[Len(results)].success THEN results[Len(results)].products ELSE <<>>)
         \o AllProductsPrepending(SubSeq(results, 1, Len(results) - 1))

AllProducts(results) == AllProductsLoop(results, 1, <<>>)

VARIABLES
    managers,      \* the managers DatabaseFactory.create_manager built, by type tag,
                   \*   that the calls go to (the crawler's db_manager: {} is None)
    connection,    \* per backend: "None" before connect(), "open" after, "lost" /
                   \*   "unreachable" without a server behind it, "closed" after close()
    store,         \* per backend: the rows of products (table / collection)
    upserted,      \* per backend: natural key -> the record last handed to a write
                   \*   that the environment did not fail (history)
    op,            \* per backend: the last method called on the manager
    ret,           \* per backend: what the last save_products returned
    products_out,  \* per backend: limit and rows of the last get_products since the
                   \*   last connect or write
    stats_out      \* per backend: the map of the last get_stats since the last connect
                   \*   or write

storeVars == <<managers, connection, store, upserted, op, ret, products_out, stats_out>>

VARIABLES
    use_playwright, \* ProductHuntCrawler.use_playwright
    urls,           \* the urls given to run
    pc,             \* where run is: "init", "scrape", "save", "saved", "done",
                    \*   "raised", "interrupted"; after cleanup "returned", "reraised"
    pages,          \* what the fetch of each url attempted so far gave (history)
    results,        \* the results list of scrape_urls / scrape_multiple_pages
    db_arg,         \* {} or {the list save_results passed to save_products}
    export_arg,     \* {} or {the list save_results passed to DataExporter}
    db_type,        \* ProductHuntCrawler.db_type
    waits,          \* per url attempted: the sleeps of the delay made after the work
                    \*   on it (history)
    export_due,     \* config asked save_results for a json or csv file (history)
    export_ret      \* what the DataExporter call of save_results returned

crawlVars == <<use_playwright, urls, pc, pages, results, db_arg, export_arg,
               db_type, waits, export_due, export_ret>>

\* Two runs writing to one target (SpecConc), and one page being parsed
\* (SpecExtract).
VARIABLES
    runs,           \* per run inside save_products: its batch, the index of its
                    \*   next write, and what the call returned (None: not yet)
    soup,           \* the page given to _parse_products: its elements in document
                    \*   order (SpecSelect), or the containers found (SpecExtract)
    parsed          \* what _parse_products returned for it

restVars == <<runs, soup, parsed>>

vars == <<storeVars, crawlVars, restVars>>

\* The crawler is not running (Spec, SpecEquiv).
InitNoCrawl ==
    /\ use_playwright = TRUE
    /\ urls = <<>>
    /\ pc = "off"
    /\ pages = <<>>
    /\ results = <<>>
    /\ db_arg = {}
    /\ export_arg = {}
    /\ db_type = None
    /\ waits = <<>>
    /\ export_due = FALSE
    /\ export_ret = None

NoStats == [valid |-> FALSE, keys |-> {}, row |-> StatsRow({})]

\* --------------------------------------------------- the storage managers
\* DatabaseManager.__init__ of each backend, against empty targets.
InitStore ==
    /\ connection = [b \in Backends |-> None]
    /\ store = [b \in Backends |-> {}]
    /\ upserted = [b \in Backends |-> EmptyMap]
    /\ op = [b \in Backends |-> "init"]
    /\ ret = [b \in Backends |-> None]
    /\ products_out = [b \in Backends |-> NoProducts]
    /\ stats_out = [b \in Backends |-> NoStats]

InitNoRest ==
    /\ runs = <<>>
    /\ soup = <<>>
    /\ parsed = [done |-> FALSE, products |-> <<>>]

\* connect() on a target in reach, returning normally (None): the connection
\* is kept; CREATE TABLE IF NOT EXISTS / create_index leave the rows alone.
Connect ==
    /\ managers # {}
    /\ connection' = [b \in Backends |-> IF b \in managers THEN "open" ELSE connection[b]]
    /\ op' = [b \in Backends |-> IF b \in managers THEN "connect" ELSE op[b]]
    /\ ret' = [b \in Backends |-> IF b \in managers THEN None ELSE ret[b]]
    /\ products_out' = [b \in Backends |-> IF b \in managers THEN NoProducts ELSE products_out[b]]
    /\ stats_out' = [b \in Backends |-> IF b \in managers THEN NoStats ELSE stats_out[b]]
    /\ UNCHANGED <<managers, store, upserted>>
    /\ UNCHANGED <<crawlVars, restVars>>

\* connect() on a target out of reach.
\* PostgreSQL: psycopg2.connect raises, connect logs and re-raises, and
\* self.connection stays what it was.
\* MongoDB: MongoClient(...) does not contact the server, and the error of
\* create_index is caught inside _create_indexes with a warning, so connect
\* returns normally with a client that reaches no server.
ConnectUnreachable ==
    /\ managers # {}
    /\ connection' = [b \in Backends |->
          IF b \in managers /\ b = "mongodb" THEN "unreachable" ELSE connection[b]]
    /\ op' = [b \in Backends |-> IF b \in managers THEN "connect" ELSE op[b]]
    /\ ret' = [b \in Backends |->
          IF b \notin managers THEN ret[b]
          ELSE IF b = "postgresql" THEN "raised" ELSE None]
    /\ products_out' = [b \in Backends |-> IF b \in managers THEN NoProducts ELSE products_out[b]]
    /\ stats_out' = [b \in Backends |-> IF b \in managers THEN NoStats ELSE stats_out[b]]
    /\ UNCHANGED <<managers, store, upserted>>
    /\ UNCHANGED <<crawlVars, restVars>>

\* The environment: the server drops the connection a manager holds (or gets
\* out of reach); the manager keeps the dead connection object.
ConnectionLost ==
    /\ \E b \in managers : connection[b] = "open"
    /\ connection' = [b \in Backends |->
          IF b \in managers /\ connection[b] = "open" THEN "lost" ELSE connection[b]]
    /\ UNCHANGED <<managers, store, upserted, op, ret, products_out, stats_out>>
    /\ UNCHANGED <<crawlVars, restVars>>

\* save_products(batch) on every manager under test.
SaveProducts(batch, fault) ==
    /\ managers # {}
    /\ LET saved == [b \in managers |->
                       SaveProductsOf(b, connection[b], store[b], batch, fault)]
       IN /\ store' = [b \in Backends |->
                         IF b \in managers THEN saved[b].rows ELSE store[b]]
          /\ ret' = [b \in Backends |->
                         IF b \in managers THEN saved[b].ret ELSE ret[b]]
    /\ upserted' = [b \in Backends |->
                   IF b \in managers /\ connection[b] = "open"
                   THEN Requested(upserted[b], batch, 1, fault)
                   ELSE upserted[b]]
    /\ op' = [b \in Backends |-> IF b \in managers THEN "save_products" ELSE op[b]]
    /\ products_out' = [b \in Backends |-> IF b \in managers THEN NoProducts ELSE products_out[b]]
    /\ stats_out' = [b \in Backends |-> IF b \in managers THEN NoStats ELSE stats_out[b]]
    /\ UNCHANGED <<managers, connection>>
    /\ UNCHANGED <<crawlVars, restVars>>

\* get_products(limit) on every manager under test, each backend returning
\* the rows in one of the orders its sort allows.
GetProducts(limit) ==
    /\ managers # {}
    /\ \E ord \in [Backends -> UNION { SortedOrders(store[b]) : b \in Backends }] :
         /\ \A b \in Backends : ord[b] \in SortedOrders(store[b])
         /\ products_out' = [b \in Backends |->
                IF b \in managers
                THEN [valid |-> TRUE, limit |-> limit,
                      rows |-> GetProductsOf(connection[b], ord[b], limit)]
                ELSE products_out[b]]
    /\ op' = [b \in Backends |-> IF b \in managers THEN "get_products" ELSE op[b]]
    /\ UNCHANGED <<managers, connection, store, upserted, ret, stats_out>>
    /\ UNCHANGED <<crawlVars, restVars>>

\* get_stats() on every manager under test.
GetStats ==
    /\ managers # {}
    /\ stats_out' = [b \in Backends |->
            IF b \in managers
            THEN [valid |-> TRUE] @@ GetStatsOf(b, connection[b], store[b])
            ELSE stats_out[b]]
    /\ op' = [b \in Backends |-> IF b \in managers THEN "get_stats" ELSE op[b]]
    /\ UNCHANGED <<managers, connection, store, upserted, ret, products_out>>
    /\ UNCHANGED <<crawlVars, restVars>>

\* ------------------------------------------------- _extract_product_data
\* The text of an element is a sequence of characters; an element that may be
\* missing is {} or {its text}, an attribute {} or {its value}.
RECURSIVE StripLeft(_)
StripLeft(t) == IF t # <<>> /\ Head(t) = " " THEN StripLeft(Tail(t)) ELSE t

RECURSIVE StripRight(_)
StripRight(t) ==
    IF t # <<>> /\ t[Len(t)] = " " THEN StripRight(SubSeq(t, 1, Len(t) - 1)) ELSE t

\* elem.get_text(strip=True) if elem else ""
GetTextStrip(elem) ==
    IF elem = {} THEN <<>> ELSE StripRight(StripLeft(CHOOSE t \in elem : TRUE))

DigitChars == <<"0", "1", "2", "3", "4", "5", "6", "7", "8", "9">>
IsDigit(c) == \E i \in DOMAIN DigitChars : DigitChars[i] = c
DigitVal(c) == (CHOOSE i \in DOMAIN DigitChars : DigitChars[i] = c) - 1

RECURSIVE ReadNumber(_, _)
ReadNumber(t, acc) ==
    IF t # <<>> /\ IsDigit(Head(t))
    THEN ReadNumber(Tail(t), 10 * acc + DigitVal(Head(t))) ELSE acc

\* _extract_number: int of the first run of digits, 0 when there is none.
RECURSIVE ExtractNumber(_)
ExtractNumber(t) ==
    IF t = <<>> THEN 0
    ELSE IF IsDigit(Head(t)) THEN ReadNumber(t, 0)
    ELSE ExtractNumber(Tail(t))

\* str.startswith('http') and str.startswith('/') on the attribute values.
StartsWithHttp(h) == h \in {"https://p.test/w", "https://p.test/i.png", "http://"}
StartsWithSlash(h) == h \in {"/w", "/i.png"}

\* urljoin(source_url, href) for a root-relative href.
UrlJoin(source_url, h) ==
    IF source_url \in ValidUrls /\ h = "/w" THEN "https://x.test/w"
    ELSE IF source_url \in ValidUrls /\ h = "/i.png" THEN "https://x.test/i.png"
    ELSE h

\* The url kept for an href / src attribute: as it is when it starts with
\* 'http', joined to the page url when it starts with '/', None otherwise.
ResolveUrl(attr, source_url) ==
    IF attr = {} THEN {}
    ELSE LET h == CHOOSE x \in attr : TRUE
         IN IF StartsWithHttp(h) THEN {h}
            ELSE IF StartsWithSlash(h) THEN {UrlJoin(source_url, h)}
            ELSE {}

\* find('h3') or find('h2') or find('a', class~name) or find('div', class~title):
\* a Tag is true whatever its content, so the first element that exists is
\* taken.
NameElem(item) ==
    IF item.h3 # {} THEN item.h3
    ELSE IF item.h2 # {} THEN item.h2
    ELSE IF item.a_name # {} THEN item.a_name
    ELSE item.div_title

\* find('p') or find('div', class~tagline/description/subtitle)
TaglineElem(item) == IF item.p # {} THEN item.p ELSE item.div_tagline

NoDescription == <<"No description available">>

\* _extract_product_data: {} is None.  ProductData(...) validates url,
\* image_url and source_url as HttpUrl; its ValidationError is caught by the
\* except clause, which logs and lets the function return None.
ExtractProductData(item, source_url) ==
    LET name == GetTextStrip(NameElem(item))
        tagline == GetTextStrip(TaglineElem(item))
        url == ResolveUrl(item.href, source_url)
        votes == IF item.vote = {} THEN 0 ELSE ExtractNumber(GetTextStrip(item.vote))
        comments == IF item.comment = {} THEN 0
                    ELSE ExtractNumber(GetTextStrip(item.comment))
        image_url == ResolveUrl(item.src, source_url)
    IN IF name = <<>> THEN {}
       ELSE IF \E u \in url \cup image_url \cup {source_url} : ~HttpUrlValid(u) THEN {}
       ELSE { [ name |-> name,
                tagline |-> IF tagline = <<>> THEN NoDescription ELSE tagline,
                url |-> url, votes |-> votes, comments |-> comments,
                image_url |-> image_url, source_url |-> source_url ] }

\* The loop of _parse_products over the containers found.
RECURSIVE ParseProducts(_, _)
ParseProducts(items, source_url) ==
    IF items = <<>> THEN <<>>
    ELSE LET product == ExtractProductData(Head(items), source_url)
             rest == ParseProducts(Tail(items), source_url)
         IN IF product # {} /\ (CHOOSE x \in product : TRUE).name # <<>>
            THEN <<CHOOSE x \in product : TRUE>> \o rest
            ELSE rest

\* ------------------------------------------------------------ SpecExtract
\* _parse_products on the containers of one page.
ElemTexts(c) == { {}, {<<" ">>}, {<<" ", c, " ">>} }

Containers ==
    [ h3 : ElemTexts("A"), h2 : ElemTexts("B"),
      a_name : ElemTexts("C"), div_title : ElemTexts("D"),
      p : { {}, {<<" ">>}, {<<"f", "a", "s", "t">>} },
      div_tagline : { {}, {<<"l", "e", "a", "n">>} },
      href : { {}, {"https://p.test/w"}, {"http://"}, {"/w"}, {"w.html"} },
      vote : { {}, {<<"4", "2", " ", "v">>}, {<<"v">>} },
      comment : { {}, {<<"7">>} },
      src : { {}, {"https://p.test/i.png"}, {"http://"} } ]

\* Containers for the pages with two of them.
FewContainers ==
    { c \in Containers :
        /\ c.a_name = {} /\ c.div_title = {}
        /\ c.p = {} /\ c.div_tagline = {} /\ c.vote = {} /\ c.comment = {} /\ c.src = {}
        /\ c.h3 # {<<" ">>} /\ c.h2 # {<<" ">>}
        /\ c.href \in { {}, {"http://"} } }

Soups == {<<>>} \cup { <<c>> : c \in Containers }
               \cup { <<c, d>> : c \in FewContainers, d \in FewContainers }

\* The url of the page being parsed.
ParsedPageUrl == "https://x.test/1"

InitExtract ==
    /\ managers = {}
    /\ InitStore
    /\ InitNoCrawl
    /\ runs = <<>>
    /\ soup \in Soups
    /\ parsed = [done |-> FALSE, products |-> <<>>]

ParseProductsCall ==
    /\ ~parsed.done
    /\ parsed' = [done |-> TRUE, products |-> ParseProducts(soup, ParsedPageUrl)]
    /\ UNCHANGED <<storeVars, crawlVars, runs, soup>>

NextExtract == ParseProductsCall

SpecExtract == InitExtract /\ [][NextExtract]_vars

\* ------------------------------------------------------------- SpecSelect
\* _parse_products on a page: the choice of the containers by the find_all
\* calls, then the loop over them.
\* An element of the page: its tag, its data-test attribute and its class
\* attribute ({} when it has none; the class is a sequence of characters),
\* and what is inside it.
UpperChars == <<"A", "B", "C", "D", "E", "F", "G", "H", "I", "J", "K", "L", "M",
                "N", "O", "P", "Q", "R", "S", "T", "U", "V", "W", "X", "Y", "Z">>
LowerChars == <<"a", "b", "c", "d", "e", "f", "g", "h", "i", "j", "k", "l", "m",
                "n", "o", "p", "q", "r", "s", "t", "u", "v", "w", "x", "y", "z">>

\* str.lower()
LowerText(t) ==
    [i \in DOMAIN t |->
        IF \E k \in DOMAIN UpperChars : UpperChars[k] = t[i]
        THEN LowerChars[CHOOSE k \in DOMAIN UpperChars : UpperChars[k] = t[i]]
        ELSE t[i]]

\* keyword in text
Contains(t, keyword) ==
    \E i \in 1..(Len(t) - Len(keyword) + 1) :
        SubSeq(t, i, i + Len(keyword) - 1) = keyword

KwProduct == <<"p", "r", "o", "d", "u", "c", "t">>
KwCard == <<"c", "a", "r", "d">>
KwItem == <<"i", "t", "e", "m">>
KwPost == <<"p", "o", "s", "t">>

\* class_=lambda x: x and any(keyword in x.lower() for keyword in keywords)
ClassContains(e, keywords) ==
    /\ e.class # {}
    /\ \E keyword \in keywords : Contains(LowerText(CHOOSE c \in e.class : TRUE), keyword)

\* The four selectors of _parse_products.
IsProductItemDiv(e) == e.tag = "div" /\ e.data_test = {"product-item"}
IsProductClassDiv(e) == e.tag = "div" /\ ClassContains(e, {KwProduct})
IsArticle(e) == e.tag = "article"
IsCardDiv(e) == e.tag = "div" /\ ClassContains(e, {KwCard, KwItem, KwPost})

Matches(e, selector) ==
    CASE selector = "product-item" -> IsProductItemDiv(e)
      [] selector = "product-class" -> IsProductClassDiv(e)
      [] selector = "article" -> IsArticle(e)
      [] selector = "card-class" -> IsCardDiv(e)

\* soup.find_all(...): the matching elements in document order.
FindAll(page, selector) == SelectSeq(page, LAMBDA e : Matches(e, selector))

\* Every selector consulted whatever the earlier ones found.
SelectContainersAllStages(page) ==
    FindAll(page, "product-item") \o FindAll(page, "product-class")
        \o FindAll(page, "article") \o FindAll(page, "card-class")

\* product_items: `a or b`, then under `if not product_items` again `c or d`;
\* an empty ResultSet is false.
SelectContainers(page) ==
    LET first == IF FindAll(page, "product-item") # <<>>
                 THEN FindAll(page, "product-item")
                 ELSE FindAll(page, "product-class")
    IN IF first # <<>> THEN first
       ELSE IF FindAll(page, "article") # <<>>
            THEN FindAll(page, "article")
            ELSE FindAll(page, "card-class")

\* A container with an h3 (or none) and nothing else inside.
PlainItem(h3) ==
    [ h3 |-> h3, h2 |-> {}, a_name |-> {}, div_title |-> {}, p |-> {},
      div_tagline |-> {}, href |-> {}, vote |-> {}, comment |-> {}, src |-> {} ]

PageElems ==
    { [tag |-> k.tag, data_test |-> k.data_test, class |-> k.class, item |-> PlainItem(h3)] :
        k \in { [tag |-> "div", data_test |-> {"product-item"}, class |-> {}],
                [tag |-> "section", data_test |-> {"product-item"}, class |-> {}],
                [tag |-> "div", data_test |-> {},
                 class |-> {<<"P", "r", "o", "d", "u", "c", "t", "-", "c", "a", "r", "d">>}],
                [tag |-> "article", data_test |-> {}, class |-> {KwProduct}],
                [tag |-> "article", data_test |-> {}, class |-> {}],
                [tag |-> "div", data_test |-> {}, class |-> {KwCard}],
                [tag |-> "div", data_test |-> {},
                 class |-> {<<"n", "e", "w", "s", "-", "i", "t", "e", "m">>}],
                [tag |-> "div", data_test |-> {"hero"}, class |-> {<<"h", "e", "r", "o">>}] },
        h3 \in { {}, {<<"A">>} } }

Pages == UNION { [1..n -> PageElems] : n \in 0..MaxElems }

InitSelect ==
    /\ managers = {}
    /\ InitStore
    /\ InitNoCrawl
    /\ runs = <<>>
    /\ soup \in Pages
    /\ parsed = [done |-> FALSE, products |-> <<>>, containers |-> <<>>]

\* _parse_products(soup, source_url).
ParsePage ==
    /\ ~parsed.done
    /\ LET product_items == SelectContainers(soup)
       IN parsed' = [ done |-> TRUE,
                      containers |-> product_items,
                      products |-> ParseProducts([i \in DOMAIN product_items |->
                                                    product_items[i].item],
                                                 ParsedPageUrl) ]
    /\ UNCHANGED <<storeVars, crawlVars, runs, soup>>

NextSelect == ParsePage

SpecSelect == InitSelect /\ [][NextSelect]_vars

\* --------------------------------------------------------------- SpecConc
\* Two crawler runs, each with its own manager of the same backend connected
\* to the same target, inside save_products at the same time: the writes of
\* the two loops interleave in any order, the environment failing nothing.
RunIds == {1, 2}

\* Pairs of non-empty batches that share a natural key.
ConcBatchPairs ==
    { bs \in [RunIds -> Batches \ {<<>>}] :
        \E i \in DOMAIN bs[1] : \E j \in DOMAIN bs[2] : KeyOf(bs[1][i]) = KeyOf(bs[2][j]) }

InitConc ==
    /\ \E b \in Backends :
          /\ managers = {b}
          /\ connection = [x \in Backends |-> IF x = b THEN "open" ELSE None]
          /\ op = [x \in Backends |-> IF x = b THEN "connect" ELSE "init"]
    /\ store = [b \in Backends |-> {}]
    /\ upserted = [b \in Backends |-> EmptyMap]
    /\ ret = [b \in Backends |-> None]
    /\ products_out = [b \in Backends |-> NoProducts]
    /\ stats_out = [b \in Backends |-> NoStats]
    /\ InitNoCrawl
    /\ \E bs \in ConcBatchPairs :
          runs = [r \in RunIds |-> [batch |-> bs[r], pos |-> 1, ret |-> None]]
    /\ soup = <<>>
    /\ parsed = [done |-> FALSE, products |-> <<>>]

\* One iteration of the loop of save_products in run r.
\* MongoDB: update_one is applied to the collection at once.
\* PostgreSQL: execute works on the committed rows and the earlier writes of
\* the run's own open transaction; when it raises, the except clause rolls
\* back and save_products returns False.
ConcWrite(r) ==
    /\ runs[r].ret = None
    /\ runs[r].pos <= Len(runs[r].batch)
    /\ \E b \in managers :
         LET me == runs[r]
         IN IF b = "mongodb"
            THEN /\ store' = [store EXCEPT ![b] = MongoUpdateOne(store[b], me.batch[me.pos])]
                 /\ runs' = [runs EXCEPT ![r].pos = me.pos + 1]
            ELSE LET own == PgLoop(store[b], SubSeq(me.batch, 1, me.pos - 1), 1, 0)
                     e == PgExecute(own.rows, me.batch[me.pos])
                 IN /\ runs' = IF own.ok /\ e.ok
                               THEN [runs EXCEPT ![r].pos = me.pos + 1]
                               ELSE [runs EXCEPT ![r].ret = "False"]
                    /\ UNCHANGED store
    /\ UNCHANGED <<managers, connection, upserted, op, ret, products_out, stats_out>>
    /\ UNCHANGED <<crawlVars, soup, parsed>>

\* The end of the loop in run r: PostgreSQL commits the run's writes onto the
\* committed rows; save_products returns True.
ConcReturn(r) ==
    /\ runs[r].ret = None
    /\ runs[r].pos > Len(runs[r].batch)
    /\ \E b \in managers :
         store' = [store EXCEPT ![b] =
                     IF b = "mongodb" THEN store[b]
                     ELSE PgLoop(store[b], runs[r].batch, 1, 0).rows]
    /\ runs' = [runs EXCEPT ![r].ret = "True"]
    /\ UNCHANGED <<managers, connection, upserted, op, ret, products_out, stats_out>>
    /\ UNCHANGED <<crawlVars, soup, parsed>>

NextConc ==
    \/ \E r \in RunIds : ConcWrite(r)
    \/ \E r \in RunIds : ConcReturn(r)

SpecConc == InitConc /\ [][NextConc]_vars

\* ------------------------------------------------------------------- Spec
\* One manager, created by DatabaseFactory.create_manager(db_type), and any
\* sequence of calls of its methods, the environment failing any write.
Init ==
    /\ \E b \in Backends : managers = {b}
    /\ InitStore
    /\ InitNoCrawl
    /\ InitNoRest

Next ==
    \/ Connect
    \/ ConnectUnreachable
    \/ ConnectionLost
    \/ \E batch \in Batches : \E fault \in 0..Len(batch) : SaveProducts(batch, fault)
    \/ \E limit \in Limits : GetProducts(limit)
    \/ GetStats

Spec == Init /\ [][Next]_vars

\* -------------------------------------------------------------- SpecEquiv
\* A PostgreSQLManager and a MongoDBManager given the same calls, the
\* environment failing nothing.
InitEquiv ==
    /\ managers = Backends
    /\ InitStore
    /\ InitNoCrawl
    /\ InitNoRest

NextEquiv ==
    \/ Connect
    \/ \E batch \in Batches : SaveProducts(batch, 0)
    \/ \E limit \in Limits : GetProducts(limit)
    \/ GetStats

SpecEquiv == InitEquiv /\ [][NextEquiv]_vars

\* -------------------------------------------------------------- SpecCrawl
\* ProductHuntCrawler.run(urls) with a supported db_type: initialize,
\* scrape_urls, save_results, the environment failing page fetches and writes
\* of the store.
InitCrawl ==
    /\ managers = {}
    /\ InitStore
    /\ use_playwright \in BOOLEAN
    /\ urls \in UrlSeqs
    /\ pc = "init"
    /\ pages = <<>>
    /\ results = <<>>
    /\ db_arg = {}
    /\ export_arg = {}
    /\ db_type \in Backends
    /\ waits = <<>>
    /\ export_due = FALSE
    /\ export_ret = None
    /\ InitNoRest

\* initialize: create_manager(db_type) and connect(); when either raises the
\* exception is logged and the crawler goes on with db_manager = None.
Initialize(t, connected) ==
    /\ pc = "init"
    /\ t = db_type
    /\ pc' = "scrape"
    /\ LET created == CreateManager(t)
       IN /\ created = {} => ~connected
          /\ managers' = IF connected THEN created ELSE {}
          /\ connection' = [b \in Backends |->
                 IF connected /\ b \in created THEN "open" ELSE connection[b]]
          /\ op' = [b \in Backends |->
                 IF connected /\ b \in created THEN "connect" ELSE op[b]]
    /\ UNCHANGED <<store, upserted, ret, products_out, stats_out>>
    /\ UNCHANGED <<use_playwright, urls, pages, results, db_arg, export_arg,
                   db_type, waits, export_due, export_ret>>
    /\ UNCHANGED restVars

\* One iteration of the page loop (scrape_multiple_pages with Playwright, the
\* for loop of scrape_urls with Requests) on the next url.
ScrapeNext(page) ==
    /\ pc = "scrape"
    /\ Len(results) < Len(urls)
    /\ LET url == urls[Len(results) + 1]
           r == IF use_playwright THEN PlaywrightLoopBody(url, page)
                                  ELSE RequestsLoopBody(url, page)
       IN /\ pages' = Append(pages, page)
          /\ IF r.raised
             THEN pc' = "raised" /\ UNCHANGED <<results, waits>>
             ELSE /\ pc' = pc
                  /\ results' = Append(results, r.value)
                  /\ waits' = Append(waits, IF use_playwright
                                            THEN PlaywrightWaits(url, page)
                                            ELSE RequestsWaits(url, page))
    /\ UNCHANGED storeVars
    /\ UNCHANGED <<use_playwright, urls, db_arg, export_arg, db_type,
                   export_due, export_ret>>
    /\ UNCHANGED restVars

\* scrape_urls returns results once every url was attempted.
ScrapeReturn ==
    /\ pc = "scrape"
    /\ Len(results) = Len(urls)
    /\ pc' = "save"
    /\ UNCHANGED storeVars
    /\ UNCHANGED <<use_playwright, urls, pages, results, db_arg, export_arg,
                   db_type, waits, export_due, export_ret>>
    /\ UNCHANGED restVars

\* save_results(results): nothing is handed on when all_products is empty;
\* otherwise save_products(all_products) when there is a db_manager, and then,
\* when config.SAVE_TO_FILE, mkdir of the data directory and the exporter of
\* config.OUTPUT_FORMAT.  An exception leaving save_products or mkdir leaves
\* save_results; the exporters catch their own and return False.
\* file_fault: "mkdir" makes Path.mkdir raise, "write" makes the exporter fail.
SaveResults(fault, save_to_file, output_format, file_fault) ==
    /\ pc = "save"
    /\ LET all_products == AllProducts(results)
       IN IF all_products = <<>>
          THEN /\ fault = 0 /\ file_fault = "none"
               /\ pc' = "saved"
               /\ UNCHANGED <<store, ret, upserted, op, products_out, stats_out,
                              db_arg, export_arg, export_due, export_ret>>
          ELSE /\ fault \in 0..Len(all_products)
               /\ export_due' = (save_to_file /\ output_format \in {"json", "csv"})
               /\ LET saved == [b \in managers |->
                         SaveProductsOf(b, connection[b], store[b], all_products, fault)]
                      save_raised == \E b \in managers : saved[b].ret = "raised"
                      exporting == save_to_file /\ output_format \in {"json", "csv"}
                  IN /\ IF managers # {}
                        THEN /\ db_arg' = {all_products}
                             /\ store' = [b \in Backends |->
                                   IF b \in managers THEN saved[b].rows ELSE store[b]]
                             /\ ret' = [b \in Backends |->
                                   IF b \in managers THEN saved[b].ret ELSE ret[b]]
                             /\ upserted' = [b \in Backends |->
                                   IF b \in managers /\ connection[b] = "open"
                                   THEN Requested(upserted[b], all_products, 1, fault)
                                   ELSE upserted[b]]
                             /\ op' = [b \in Backends |->
                                   IF b \in managers THEN "save_products" ELSE op[b]]
                        ELSE /\ fault = 0
                             /\ UNCHANGED <<store, ret, upserted, op, db_arg>>
                     /\ IF save_raised
                        THEN /\ file_fault = "none"
                             /\ pc' = "raised"
                             /\ UNCHANGED <<export_arg, export_ret>>
                        ELSE IF save_to_file /\ file_fault = "mkdir"
                        THEN /\ pc' = "raised"
                             /\ export_ret' = "raised"
                             /\ UNCHANGED export_arg
                        ELSE /\ file_fault = "mkdir" => save_to_file
                             /\ file_fault = "write" => exporting
                             /\ pc' = "saved"
                             /\ export_arg' = IF exporting THEN {all_products} ELSE {}
                             /\ export_ret' = IF ~exporting THEN None
                                              ELSE IF file_fault = "write" THEN "False"
                                              ELSE "True"
               /\ UNCHANGED <<products_out, stats_out>>
    /\ UNCHANGED <<managers, connection>>
    /\ UNCHANGED <<use_playwright, urls, pages, results, db_type, waits>>
    /\ UNCHANGED restVars

\* The end of run's try body: get_stats() when there is a db_manager, then
\* the completion message; nothing here raises (get_stats catches its own).
RunGetStats ==
    /\ pc = "saved"
    /\ pc' = "done"
    /\ stats_out' = [b \in Backends |->
            IF b \in managers
            THEN [valid |-> TRUE] @@ GetStatsOf(b, connection[b], store[b])
            ELSE stats_out[b]]
    /\ op' = [b \in Backends |-> IF b \in managers THEN "get_stats" ELSE op[b]]
    /\ UNCHANGED <<managers, connection, store, upserted, ret, products_out>>
    /\ UNCHANGED <<use_playwright, urls, pages, results, db_arg, export_arg,
                   db_type, waits, export_due, export_ret>>
    /\ UNCHANGED restVars

\* A stop signal is delivered to run while save_results is inside
\* save_products(all_products), during its k-th write: the signal leaves
\* save_results and the try of run, whose `except Exception` does not take it.
SaveResultsInterrupted(k) ==
    /\ pc = "save"
    /\ managers # {}
    /\ \A b \in managers : connection[b] = "open"
    /\ LET all_products == AllProducts(results)
       IN /\ all_products # <<>>
          /\ k \in 1..Len(all_products)
          /\ db_arg' = {all_products}
          /\ store' = [b \in Backends |->
                IF b \in managers
                THEN SaveInterruptedOf(b, store[b], all_products, k) ELSE store[b]]
          /\ upserted' = [b \in Backends |->
                IF b \in managers
                THEN Requested(upserted[b], all_products, 1, k) ELSE upserted[b]]
    /\ ret' = [b \in Backends |-> IF b \in managers THEN "interrupted" ELSE ret[b]]
    /\ op' = [b \in Backends |-> IF b \in managers THEN "save_products" ELSE op[b]]
    /\ pc' = "interrupted"
    /\ UNCHANGED <<managers, connection, products_out, stats_out>>
    /\ UNCHANGED <<use_playwright, urls, pages, results, export_arg, db_type, waits,
                   export_due, export_ret>>
    /\ UNCHANGED restVars

\* initialize when psycopg2.connect succeeds and _create_tables raises:
\* connect re-raises with self.connection set and not closed, and initialize
\* sets db_manager = None, so nothing refers to the manager any more.  The
\* connection is closed from then on only if the interpreter finalizes the
\* unreferenced object (collected); no statement of the program closes it.
\* (With MongoDB a failing create_index is caught inside _create_indexes and
\* initialize succeeds.)
InitializeTablesFail(t, collected) ==
    /\ pc = "init"
    /\ t = db_type
    /\ CreateManager(t) = {"postgresql"}
    /\ pc' = "scrape"
    /\ managers' = {}
    /\ connection' = [connection EXCEPT !["postgresql"] =
                         IF collected THEN "closed" ELSE "open"]
    /\ op' = [op EXCEPT !["postgresql"] = "connect"]
    /\ ret' = [ret EXCEPT !["postgresql"] = "raised"]
    /\ UNCHANGED <<store, upserted, products_out, stats_out>>
    /\ UNCHANGED <<use_playwright, urls, pages, results, db_arg, export_arg,
                   db_type, waits, export_due, export_ret>>
    /\ UNCHANGED restVars

\* PostgreSQLManager.disconnect / MongoDBManager.disconnect: close() when the
\* manager holds a connection / client.
Disconnect(conn) == IF conn = None THEN None ELSE "closed"

\* The finally clause of run: cleanup() disconnects when there is a
\* db_manager; then run returns, or the exception goes on to the caller.
Cleanup ==
    /\ pc \in {"done", "raised", "interrupted"}
    /\ pc' = IF pc = "done" THEN "returned" ELSE "reraised"
    /\ connection' = [b \in Backends |->
          IF b \in managers THEN Disconnect(connection[b]) ELSE connection[b]]
    /\ op' = [b \in Backends |-> IF b \in managers THEN "disconnect" ELSE op[b]]
    /\ UNCHANGED <<managers, store, upserted, ret, products_out, stats_out>>
    /\ UNCHANGED <<use_playwright, urls, pages, results, db_arg, export_arg,
                   db_type, waits, export_due, export_ret>>
    /\ UNCHANGED restVars

\* The server drops the db_manager's connection while run is under way.
RunConnectionLost ==
    /\ pc \in {"scrape", "save"}
    /\ ConnectionLost

NextCrawl ==
    \/ \E t \in Backends : \E connected \in BOOLEAN : Initialize(t, connected)
    \/ \E page \in PageOutcomes : ScrapeNext(page)
    \/ ScrapeReturn
    \/ \E fault \in 0..Len(AllProducts(results)) : \E save_to_file \in BOOLEAN :
         \E output_format \in {"json", "csv", "xml"} :
            SaveResults(fault, save_to_file, output_format, "none")

SpecCrawl == InitCrawl /\ [][NextCrawl]_vars

\* ---------------------------------------------------------------- SpecRun
\* ProductHuntCrawler(db_type=t).run(urls) from initialize to the end of the
\* try body, for any tag t, the environment also dropping the connection and
\* failing the file export.
RunUrlSeqs == UNION { [1..n -> UrlPool] : n \in 0..MaxRunUrls }

InitRun ==
    /\ managers = {}
    /\ InitStore
    /\ use_playwright \in BOOLEAN
    /\ urls \in RunUrlSeqs
    /\ pc = "init"
    /\ pages = <<>>
    /\ results = <<>>
    /\ db_arg = {}
    /\ export_arg = {}
    /\ db_type \in TypeTags
    /\ waits = <<>>
    /\ export_due = FALSE
    /\ export_ret = None
    /\ InitNoRest

NextRun ==
    \/ \E t \in TypeTags : \E connected \in BOOLEAN : Initialize(t, connected)
    \/ \E page \in PageOutcomes : ScrapeNext(page)
    \/ ScrapeReturn
    \/ \E fault \in 0..Len(AllProducts(results)) : \E save_to_file \in BOOLEAN :
         \E output_format \in {"json", "csv", "xml"} :
           \E file_fault \in {"none", "mkdir", "write"} :
              SaveResults(fault, save_to_file, output_format, file_fault)
    \/ \E k \in 1..Len(AllProducts(results)) : SaveResultsInterrupted(k)
    \/ RunGetStats
    \/ RunConnectionLost
    \/ \E t \in TypeTags : \E collected \in BOOLEAN : InitializeTablesFail(t, collected)
    \/ Cleanup

SpecRun == InitRun /\ [][NextRun]_vars

\* ------------------------------------------------------------ claims C1-C9
Connected(b) == b \in managers /\ connection[b] = "open"

\* C1: on each backend, after connect() and any save_products calls, the store
\* holds exactly one row per (name, source_url) pair that was upserted, and that
\* row's tagline, votes and comments are those of the latest upsert of the pair.
C1_OneRowPerKeyLatestValues ==
    \A b \in Backends : Connected(b) =>
        /\ { KeyOf(r) : r \in store[b] } = DOMAIN upserted[b]
        /\ Cardinality(store[b]) = Cardinality(DOMAIN upserted[b])
        /\ \A r \in store[b] :
              /\ r.tagline = upserted[b][KeyOf(r)].tagline
              /\ r.votes = upserted[b][KeyOf(r)].votes
              /\ r.comments = upserted[b][KeyOf(r)].comments

\* C2: a save_products that does not return True (a write of the batch having
\* failed) returns False and leaves the rows visible to get_products exactly
\* as they were before the call, on both backends.
C2_BatchAtomic ==
    [][ \A b \in Backends :
          (Connected(b) /\ op'[b] = "save_products" /\ ret'[b] # "True")
             => (ret'[b] = "False" /\ store'[b] = store[b]) ]_vars

\* C5: after connect() and any save_products calls (none included), get_stats()
\* returns a map with the key total_products, whose value is the number of rows
\* get_products(limit=None) returns.
C5_StatsTotalMatchesQuery ==
    \A b \in Backends : (Connected(b) /\ stats_out[b].valid) =>
        /\ "total_products" \in stats_out[b].keys
        /\ (products_out[b].valid /\ products_out[b].limit = {})
              => stats_out[b].row.total_products = Len(products_out[b].rows)

\* C6: the same calls on PostgreSQLManager and on MongoDBManager give the same
\* observable results at every step: the boolean of save_products, the rows of
\* get_products in the same order, and the map of get_stats.
C6_BackendsEquivalent ==
    (\A b \in Backends : Connected(b)) =>
        /\ ret["postgresql"] = ret["mongodb"]
        /\ products_out["postgresql"] = products_out["mongodb"]
        /\ stats_out["postgresql"] = stats_out["mongodb"]

\* C7: a successful save_products leaves url, image_url, maker, category,
\* launch_date and scraped_at of every existing row unchanged (a matching
\* record changes only the mutable columns; a new record changes no old row).
C7_UpsertFrame ==
    [][ \A b \in Backends :
          (Connected(b) /\ op'[b] = "save_products" /\ ret'[b] = "True")
             => \A r \in store[b] : \E q \in store'[b] :
                   /\ KeyOf(q) = KeyOf(r)
                   /\ q.url = r.url /\ q.image_url = r.image_url
                   /\ q.maker = r.maker /\ q.category = r.category
                   /\ q.launch_date = r.launch_date /\ q.scraped_at = r.scraped_at ]_vars

\* C8: a record given to save_products and then read with get_products() comes
\* back with every field equal to the value of the latest save_products call
\* for its key, on both backends.
C8_RoundTrip ==
    \A b \in Backends :
        (Connected(b) /\ products_out[b].valid /\ products_out[b].limit = {}) =>
            \A k \in DOMAIN upserted[b] :
                \E i \in DOMAIN products_out[b].rows :
                    products_out[b].rows[i] = upserted[b][k]

Min(a, b) == IF a < b THEN a ELSE b

\* C9: get_products returns rows sorted by scraped_at descending; with an
\* integer limit n >= 0 (n = 0 included) it returns the first min(n, store
\* size) rows of that order, and all rows when limit is absent.
C9_SortedAndLimited ==
    \A b \in Backends : (Connected(b) /\ products_out[b].valid) =>
        LET out == products_out[b].rows
            returned == { out[i] : i \in DOMAIN out }
        IN /\ \A i, j \in DOMAIN out : i < j => out[i].scraped_at >= out[j].scraped_at
           /\ returned \subseteq store[b]
           /\ Cardinality(returned) = Len(out)
           /\ \A r \in returned : \A q \in store[b] \ returned : r.scraped_at >= q.scraped_at
           /\ products_out[b].limit = {} => Len(out) = Cardinality(store[b])
           /\ \A n \in products_out[b].limit : Len(out) = Min(n, Cardinality(store[b]))

\* ------------------------------------------------------- claims C3, C4, C10
\* scrape_urls has ended, by returning results or by raising.
ScrapeEnded == pc \in {"save", "saved", "raised"}

\* C3: for every url sequence and every pattern of per-url failures, on both
\* page loops, scrape_urls returns exactly one ScrapingResult per input url,
\* and the i-th one has page_url equal to the i-th url.
C3_OneOutcomePerUrl ==
    ScrapeEnded =>
        /\ pc # "raised"
        /\ Len(results) = Len(urls)
        /\ \A i \in DOMAIN results : results[i].page_url = urls[i]

\* The outcome a page is to give by itself: its products on success, an empty
\* failure carrying the error text otherwise.
OutcomeAlone(url, page) ==
    IF page.ok
    THEN [ success |-> TRUE, products |-> Extracted(page.items, url),
           total_count |-> Len(page.items), page_url |-> url, error_message |-> {} ]
    ELSE [ success |-> FALSE, products |-> <<>>, total_count |-> 0,
           page_url |-> url, error_message |-> {FetchErrorText} ]

\* C4: when the fetch of url i raises, outcome[i] is a failure with no product,
\* total_count 0 and a non-empty error_message, the loop goes on with url i+1,
\* and every other outcome is what its own page gives.
C4_FailureIsolated ==
    \A i \in DOMAIN pages : ~pages[i].ok =>
        /\ pc # "raised"
        /\ i \in DOMAIN results
        /\ results[i].success = FALSE
        /\ results[i].products = <<>>
        /\ results[i].total_count = 0
        /\ results[i].error_message # {} /\ "" \notin results[i].error_message
        /\ \A j \in DOMAIN results : results[j] = OutcomeAlone(urls[j], pages[j])

\* The products of the successful outcomes, last outcome last.
RECURSIVE ConcatSuccessful(_)
ConcatSuccessful(rs) ==
    IF rs = <<>> THEN <<>>
    ELSE ConcatSuccessful(SubSeq(rs, 1, Len(rs) - 1)) \o
         (IF rs[Len(rs)].success THEN rs[Len(rs)].products ELSE <<>>)

\* C10: what save_results hands to save_products and to the exporter is the
\* concatenation, in outcome order, of the products of the outcomes with
\* success=true, each in page order (save_products gets it whenever there is a
\* db_manager and the aggregate is not empty), and save_results leaves the
\* outcome sequence as it was.
C10_AggregateIsConcatenation ==
    [][ (pc = "save" /\ pc' = "saved") =>
          /\ results' = results
          /\ \A x \in db_arg' \cup export_arg' : x = ConcatSuccessful(results)
          /\ (managers # {} /\ ConcatSuccessful(results) # <<>>) => db_arg' # {} ]_vars

\* save_results ran on three outcomes, a failed one between two successful
\* ones with different products, and handed the aggregate to both sinks.
C10_Witness ==
    /\ pc = "saved"
    /\ Len(results) = 3
    /\ results[1].success /\ ~results[2].success /\ results[3].success
    /\ Len(results[1].products) = 2
    /\ results[3].products # <<>>
    /\ results[1].page_url # results[3].page_url
    /\ db_arg # {} /\ export_arg # {}
    /\ db_arg = {results[1].products \o results[3].products}

\* ------------------------------------------------------------ claims C11-C20
\* C11: between the end of the attempt on url i and the start of the fetch of
\* url i+1 the configured delay is waited exactly once, whether outcome i was a
\* success or a failure, on both page loops.
C11_DelayBetweenAttempts ==
    \A i \in DOMAIN waits : i < Len(pages) => waits[i] = 1

\* C12: a run started with a type tag other than 'postgresql' and 'mongodb'
\* ends in failure before any page fetch: it never reaches the page loop and no
\* page is fetched.
C12_UnsupportedTagFailsFast ==
    db_type \notin Backends => (pc \in {"init", "raised", "reraised"} /\ pages = <<>>)

\* C13: a failure inside save_products or get_products, a lost or absent
\* connection included, is reported by the return value (False, empty list)
\* and never by an exception leaving the method.
C13_FailureIsReturnValue ==
    \A b \in managers :
        /\ op[b] = "save_products" => ret[b] \in {"True", "False"}
        /\ op[b] = "get_products" =>
              (products_out[b].valid /\ (connection[b] # "open" => products_out[b].rows = <<>>))

\* C14: the two sinks of save_results are independent.  A failed file export
\* leaves in the store the rows of the save_products before it, and a failed
\* save_products does not keep the file export of the same aggregate from
\* being attempted.
C14_SinksIndependent ==
    /\ (export_ret \in {"False", "raised"}) =>
          \A b \in managers : ret[b] = "True" =>
              \A i \in DOMAIN AllProducts(results) :
                  \E r \in store[b] : KeyOf(r) = KeyOf(AllProducts(results)[i])
    /\ (pc \in {"saved", "done", "raised"} /\ db_arg # {} /\ export_due
          /\ \E b \in managers : ret[b] # "True") =>
          (export_arg = db_arg \/ export_ret = "raised")

\* C15: when a stop signal arrives during save_products of the aggregate, the
\* store afterwards holds the whole batch or nothing of it, on both backends.
C15_InterruptedSaveAllOrNone ==
    [][ pc' = "interrupted" =>
          \A b \in managers :
              \/ store'[b] = store[b]
              \/ store'[b] = SaveProductsOf(b, "open", store[b], AllProducts(results), 0).rows
      ]_vars

\* C18: a run in which every page attempt fails ends normally, with one failed
\* outcome per url; a run that ends normally with some pages successful and
\* others failed has handed exactly the successful pages' records to
\* save_products and to the exporter.
C18_FailuresDoNotFailTheRun ==
    pc \in {"done", "raised"} =>
        /\ (pages # <<>> /\ \A i \in DOMAIN pages : ~pages[i].ok) =>
              /\ pc = "done"
              /\ Len(results) = Len(urls)
              /\ \A i \in DOMAIN results : ~results[i].success
        /\ (pc = "done" /\ (\E i \in DOMAIN results : results[i].success)
                        /\ (\E i \in DOMAIN results : ~results[i].success)) =>
              /\ \A x \in db_arg \cup export_arg : x = ConcatSuccessful(results)
              /\ (managers # {} /\ ConcatSuccessful(results) # <<>>) => db_arg # {}
              /\ (export_due /\ ConcatSuccessful(results) # <<>>) => export_arg # {}

\* C17: connect() raises on a target out of reach, on both backends; after a
\* connect() that returned normally the target has its schema / index set with
\* uniqueness of (name, source_url); and connect() leaves the stored rows as
\* they were.
C17_ConnectContract ==
    [][ \A b \in managers : op'[b] = "connect" =>
          /\ ret'[b] # "raised" =>
                /\ connection'[b] # "unreachable"
                /\ OnConflictTarget \in UniqueIndexesOf(b)
          /\ store'[b] = store[b] ]_vars

\* C16: when two runs interleave their save_products calls on the same target
\* with batches that share natural keys, then whatever the interleaving, once
\* both calls have ended the store has at most one row per (name, source_url),
\* both calls returned True, and every row carries the mutable fields of one
\* of the upserts of its key.
C16_InterleavedUpserts ==
    (runs # <<>> /\ \A r \in RunIds : runs[r].ret # None) =>
        \A b \in managers :
            /\ \A x, y \in store[b] : KeyOf(x) = KeyOf(y) => x = y
            /\ \A r \in RunIds : runs[r].ret = "True"
            /\ \A x \in store[b] :
                  \E r \in RunIds : \E i \in DOMAIN runs[r].batch :
                      LET p == runs[r].batch[i]
                      IN /\ KeyOf(p) = KeyOf(x)
                         /\ x.tagline = p.tagline /\ x.description = p.description
                         /\ x.votes = p.votes /\ x.comments = p.comments

\* The record a container with a name is to give when every field that is
\* missing or does not parse falls back to its default.
Degraded(item, source_url) ==
    LET tagline == GetTextStrip(TaglineElem(item))
        url == ResolveUrl(item.href, source_url)
        image_url == ResolveUrl(item.src, source_url)
    IN [ name |-> GetTextStrip(NameElem(item)),
         tagline |-> IF tagline = <<>> THEN NoDescription ELSE tagline,
         url |-> { u \in url : HttpUrlValid(u) },
         votes |-> ExtractNumber(GetTextStrip(item.vote)),
         comments |-> ExtractNumber(GetTextStrip(item.comment)),
         image_url |-> { u \in image_url : HttpUrlValid(u) },
         source_url |-> source_url ]

RECURSIVE DegradedAll(_, _)
DegradedAll(items, source_url) ==
    IF items = <<>> THEN <<>>
    ELSE (IF GetTextStrip(NameElem(Head(items))) # <<>>
          THEN <<Degraded(Head(items), source_url)>> ELSE <<>>)
         \o DegradedAll(Tail(items), source_url)

\* C19: every container whose name is not empty yields a record, whatever
\* other field is missing or fails to parse: that field takes its default
\* (sentinel tagline, no url / image_url, 0 votes / comments) and the
\* container is not dropped.
C19_FieldsDegrade ==
    parsed.done => parsed.products = DegradedAll(soup, ParsedPageUrl)

\* The name the cascade is to give: the trimmed text of the first of h3, h2,
\* a (class name), div (class title) whose trimmed text is not empty.
FirstNonEmptyName(item) ==
    IF GetTextStrip(item.h3) # <<>> THEN GetTextStrip(item.h3)
    ELSE IF GetTextStrip(item.h2) # <<>> THEN GetTextStrip(item.h2)
    ELSE IF GetTextStrip(item.a_name) # <<>> THEN GetTextStrip(item.a_name)
    ELSE GetTextStrip(item.div_title)

RECURSIVE NamesToYield(_)
NamesToYield(items) ==
    IF items = <<>> THEN <<>>
    ELSE (IF FirstNonEmptyName(Head(items)) # <<>>
          THEN <<FirstNonEmptyName(Head(items))>> ELSE <<>>)
         \o NamesToYield(Tail(items))

\* C20: the name of a record is the trimmed text of the first candidate, in
\* the order h3, h2, a (class name), div (class title), whose trimmed text is
\* not empty, and a container gives no record exactly when all four are absent
\* or empty: the names of the records are those of the containers that have
\* one, in page order.
C20_NameCascade ==
    parsed.done =>
        [i \in DOMAIN parsed.products |-> parsed.products[i].name] = NamesToYield(soup)

\* ------------------------------------------------------------ claims C21-C22
\* The stages of the cascade as the claim lists them; the third one gives the
\* article elements when the page has any and the card / item / post divs
\* otherwise.
CascadeStages(page) ==
    << FindAll(page, "product-item"),
       FindAll(page, "product-class"),
       IF FindAll(page, "article") # <<>> THEN FindAll(page, "article")
                                          ELSE FindAll(page, "card-class") >>

C22_NoConnectionLeftOpen ==
    pc \in {"returned", "reraised"} =>
        \A b \in Backends : connection[b] \notin {"open", "lost"}

====
